---- MODULE Spec2Model ----
(***************************************************************************)
(* sway-workspace: the workspace selectors (find_by, find_on_output,       *)
(* find_output, layout_aware), the ordering of outputs and the navigation  *)
(* driver (main) of src/src/main.rs, as state machines.                    *)
(***************************************************************************)
EXTENDS Integers, Sequences, FiniteSets, TLC

VARIABLES
  args,        \* Args: [action, move_ws, no_focus_ws, stdout_ws]
  pc,          \* position of the invocation / of the selector call
  workspaces,  \* Vec<Value> answered by get_workspaces
  reply,       \* the outputs as the window manager listed them
  outputs,     \* Vec<Output> returned by get_outputs
  current,     \* current / current_ws_num handed to the selector
  output,      \* output / current_output handed to the selector (to_string form)
  step,        \* step handed to the selector
  num,         \* the selector's result: [panic, val]
  ipc,         \* the run commands sent on the socket, in order
  stdout,      \* what was printed
  origin,      \* the number the first selector call started from
  calls        \* selector calls made so far on this snapshot

vars == <<args, pc, workspaces, reply, outputs, current, output, step, num, ipc,
          stdout, origin, calls>>

----------------------------------------------------------------------------
(* Bounds of the model. *)

MaxNum == 3          \* largest workspace number in a snapshot
MaxWs == 3           \* workspaces in a snapshot of the selector specifications
MaxOutputs == 3      \* outputs in a reply to get_outputs
MaxCoord == 1        \* largest x and y of an output's rect
MaxDrvWs == 2        \* workspaces (numbered 1..MaxDrvWs) in the driver's snapshot
MaxDrvOutputs == 1   \* outputs in the driver's reply to get_outputs

----------------------------------------------------------------------------
(* Values and helpers. *)

\* Option<i64>::unwrap and friends: a call either panics or yields a value.
Ok(v) == [panic |-> FALSE, val |-> v]
Panic == [panic |-> TRUE, val |-> 0]

SetMax(S) == CHOOSE x \in S : \A y \in S : y <= x
SetMin(S) == CHOOSE x \in S : \A y \in S : x <= y
Range(s) == {s[i] : i \in 1..Len(s)}

\* w["num"].as_i64().unwrap() over a list of workspaces
Nums(wss) == [i \in 1..Len(wss) |-> wss[i].num]

\* Value::to_string of a JSON string: the text between double quotes
ValueToString(v) == "\"" \o v \o "\""

\* All sequences over S of length 0..n
SeqsUpTo(S, n) == UNION {[1..k -> S] : k \in 0..n}

----------------------------------------------------------------------------
(* Linear navigation. *)

\* find_by with the lower clamp off by one (next <= first is not clamped at 0).
find_by_off(workspaces_, current_, step_) ==
  IF workspaces_ = <<>> THEN Panic
  ELSE LET existing == Nums(workspaces_)
           next0 == current_ + step_
           first == 1
           last == SetMax(Range(existing))
       IN Ok(IF current_ = last /\ step_ > 0 THEN last + step_
             ELSE IF next0 < first - 1 THEN first
             ELSE IF next0 > last THEN last
             ELSE next0)

\* find_by with the overflow rule taken on any forward step (|| for &&).
find_by_or(workspaces_, current_, step_) ==
  IF workspaces_ = <<>> THEN Panic
  ELSE LET existing == Nums(workspaces_)
           next0 == current_ + step_
           first == 1
           last == SetMax(Range(existing))
       IN Ok(IF current_ = last \/ step_ > 0 THEN last + step_
             ELSE IF next0 < first THEN first
             ELSE IF next0 > last THEN last
             ELSE next0)

find_by(workspaces_, current_, step_) ==
  IF workspaces_ = <<>> THEN Panic
  ELSE LET existing == Nums(workspaces_)
           next0 == current_ + step_
           first == 1
           last == SetMax(Range(existing))
       IN Ok(IF current_ = last /\ step_ > 0 THEN last + step_
             ELSE IF next0 < first THEN first
             ELSE IF next0 > last THEN last
             ELSE next0)

----------------------------------------------------------------------------
(* Per-output linear navigation. *)

\* workspaces.filter(|w| w["output"].to_string() != output)
OnOtherOutput(w, output_) == ValueToString(w.output) # output_

find_on_output(workspaces_, current_, step_, output_) ==
  LET other_wss == SelectSeq(workspaces_, LAMBDA w : OnOtherOutput(w, output_))
      other_nums == Nums(other_wss)
      other_nums_prev == <<0>> \o SelectSeq(other_nums, LAMBDA n : n < current_)
      other_nums_next == SelectSeq(other_nums, LAMBDA n : n > current_)
      next0 == current_ + step_
      first == SetMax(Range(other_nums_prev)) + 1
      last == IF Len(other_nums_next) = 0 THEN next0
              ELSE SetMin(Range(other_nums_next)) - 1
  IN IF next0 < first THEN first
     ELSE IF next0 > last THEN last
     ELSE next0

----------------------------------------------------------------------------
(* Cross-output jump. *)

find_output(workspaces_, current_, step_, output_) ==
  LET other_wss == SelectSeq(workspaces_,
                     LAMBDA w : OnOtherOutput(w, output_) /\ w.visible = TRUE)
      other_prevs == SelectSeq(other_wss, LAMBDA w : w.num < current_)
      other_nexts == SelectSeq(other_wss, LAMBDA w : w.num > current_)
  IN IF step_ < 0
       THEN IF Len(other_prevs) = 0 THEN current_
            ELSE other_prevs[Len(other_prevs)].num
     ELSE IF step_ > 0
       THEN IF Len(other_nexts) = 0 THEN current_
            ELSE other_nexts[1].num
     ELSE current_

----------------------------------------------------------------------------
(* Output ordering. *)

Output(x_, y_, cw, f) ==
  [rect |-> [x |-> x_, y |-> y_], current_workspace |-> cw, focused |-> f]

\* Ord::cmp with the tie on x broken by descending y.
cmp_yflip(self, other) ==
  IF self.rect.x = other.rect.x
  THEN IF self.rect.y < other.rect.y THEN "Greater"
       ELSE IF self.rect.y = other.rect.y THEN "Equal"
       ELSE "Less"
  ELSE IF self.rect.x < other.rect.x THEN "Less"
  ELSE "Greater"

\* impl Ord for Output
cmp(self, other) ==
  IF self.rect.x = other.rect.x
  THEN IF self.rect.y > other.rect.y THEN "Greater"
       ELSE IF self.rect.y = other.rect.y THEN "Equal"
       ELSE "Less"
  ELSE IF self.rect.x < other.rect.x THEN "Less"
  ELSE "Greater"

\* impl PartialEq for Output
eq(self, other) == self.rect.x = other.rect.x /\ self.rect.y = other.rect.y

\* Vec::sort (stable; an insertion sort on slices this short): `o` moves left
\* past every element that compares Greater.
RECURSIVE InsertTail(_, _)
InsertTail(v, o) ==
  IF v = <<>> THEN <<o>>
  ELSE IF cmp(v[Len(v)], o) = "Greater"
       THEN Append(InsertTail(SubSeq(v, 1, Len(v) - 1), o), v[Len(v)])
       ELSE Append(v, o)

RECURSIVE sort(_)
sort(v) ==
  IF v = <<>> THEN <<>>
  ELSE InsertTail(sort(SubSeq(v, 1, Len(v) - 1)), v[Len(v)])

\* get_outputs: the reply, sorted
get_outputs(listed) == sort(listed)

\* Vec<i64>::sort
RECURSIVE InsertNum(_, _)
InsertNum(v, n) ==
  IF v = <<>> THEN <<n>>
  ELSE IF v[Len(v)] > n
       THEN Append(InsertNum(SubSeq(v, 1, Len(v) - 1), n), v[Len(v)])
       ELSE Append(v, n)

RECURSIVE sort_i64(_)
sort_i64(v) ==
  IF v = <<>> THEN <<>>
  ELSE InsertNum(sort_i64(SubSeq(v, 1, Len(v) - 1)), v[Len(v)])

----------------------------------------------------------------------------
(* Layout-aware navigation. *)

\* str::parse::<i64> on a string given as its characters: an optional sign,
\* then one or more decimal digits (strings this short cannot overflow i64).
DigitChars == <<"0", "1", "2", "3", "4", "5", "6", "7", "8", "9">>
IsDigit(c) == \E i \in 1..Len(DigitChars) : DigitChars[i] = c
DigitVal(c) == (CHOOSE i \in 1..Len(DigitChars) : DigitChars[i] = c) - 1

RECURSIVE DecimalVal(_)
DecimalVal(ds) ==
  IF ds = <<>> THEN 0
  ELSE 10 * DecimalVal(SubSeq(ds, 1, Len(ds) - 1)) + DigitVal(ds[Len(ds)])

parse_i64(str) ==
  IF str = <<>> THEN Panic
  ELSE LET signed == str[1] \in {"+", "-"}
           digits == IF signed THEN Tail(str) ELSE str
       IN IF digits = <<>> \/ \E i \in 1..Len(digits) : ~IsDigit(digits[i])
          THEN Panic
          ELSE Ok(IF str[1] = "-" THEN 0 - DecimalVal(digits)
                  ELSE DecimalVal(digits))

\* usize values: wraps * 2^64 + off. `step as usize` of a negative step is
\* 2^64 + step.
AsUsize(step_) == [wraps |-> IF step_ < 0 THEN 1 ELSE 0, off |-> step_]

\* focused_output + step as usize: with overflow checks (a debug build) an
\* overflowing sum panics, without them (a release build) it wraps.
UsizeAdd(p, u, overflow_checks) ==
  IF u.wraps = 1 /\ p + u.off >= 0
  THEN IF overflow_checks THEN Panic ELSE Ok([wraps |-> 0, off |-> p + u.off])
  ELSE Ok([wraps |-> u.wraps, off |-> p + u.off])

\* outputs.get(index).unwrap().current_workspace.parse::<i64>().unwrap(),
\* index 0-based; an index of 2^64 - k is past the end of any Vec.
CurrentWorkspaceAt(outputs_, index) ==
  IF index.wraps = 1 \/ index.off >= Len(outputs_) THEN Panic
  ELSE parse_i64(outputs_[index.off + 1].current_workspace)

\* outputs.iter().position(|r| r.focused), 0-based (-1: None)
FocusedOutput(outputs_) ==
  IF \E i \in 1..Len(outputs_) : outputs_[i].focused
  THEN SetMin({i \in 1..Len(outputs_) : outputs_[i].focused}) - 1
  ELSE -1

UsizeMin(u, n) == IF u.wraps = 1 \/ u.off > n THEN [wraps |-> 0, off |-> n] ELSE u
UsizeMax(u, n) == IF u.wraps = 0 /\ u.off < n THEN [wraps |-> 0, off |-> n] ELSE u

\* layout_aware without current_nums.sort().
layout_aware_nosort(workspaces_, current_ws_num, current_output, step_, outputs_, overflow_checks) ==
  LET current_output_wss ==
        SelectSeq(workspaces_, LAMBDA w : ValueToString(w.output) = current_output)
      current_nums == Nums(current_output_wss)
  IN IF current_ws_num \notin Range(current_nums) THEN Panic
     ELSE
       LET current_index ==
             SetMin({i \in 1..Len(current_nums) : current_nums[i] = current_ws_num}) - 1
           focused_output == FocusedOutput(outputs_)
           sum == UsizeAdd(focused_output, AsUsize(step_), overflow_checks)
       IN IF current_index = 0 /\ step_ < 0
          THEN IF focused_output < 0 \/ sum.panic THEN Panic
               ELSE CurrentWorkspaceAt(outputs_, UsizeMax(sum.val, 0))
          ELSE IF current_index = Len(current_nums) - 1 /\ step_ > 0
          THEN IF focused_output < 0 \/ sum.panic THEN Panic
               ELSE CurrentWorkspaceAt(outputs_, UsizeMin(sum.val, Len(outputs_) - 1))
          ELSE LET index == current_index + step_
               IN IF index < 0 \/ index >= Len(current_nums) THEN Panic
                  ELSE Ok(current_nums[index + 1])

layout_aware(workspaces_, current_ws_num, current_output, step_, outputs_, overflow_checks) ==
  LET current_output_wss ==
        SelectSeq(workspaces_, LAMBDA w : ValueToString(w.output) = current_output)
      current_nums == sort_i64(Nums(current_output_wss))
  IN IF current_ws_num \notin Range(current_nums) THEN Panic
     ELSE
       LET current_index ==
             SetMin({i \in 1..Len(current_nums) : current_nums[i] = current_ws_num}) - 1
           focused_output == FocusedOutput(outputs_)
           sum == UsizeAdd(focused_output, AsUsize(step_), overflow_checks)
       IN IF current_index = 0 /\ step_ < 0
          THEN IF focused_output < 0 \/ sum.panic THEN Panic
               ELSE CurrentWorkspaceAt(outputs_, UsizeMax(sum.val, 0))
          ELSE IF current_index = Len(current_nums) - 1 /\ step_ > 0
          THEN IF focused_output < 0 \/ sum.panic THEN Panic
               ELSE CurrentWorkspaceAt(outputs_, UsizeMin(sum.val, Len(outputs_) - 1))
          ELSE LET index == current_index + step_
               IN IF index < 0 \/ index >= Len(current_nums) THEN Panic
                  ELSE Ok(current_nums[index + 1])

----------------------------------------------------------------------------
(* The commands main sends. *)

\* Display for i64: format!("{num}")
RECURSIVE FormatNat(_)
FormatNat(n) ==
  IF n < 10 THEN DigitChars[n + 1]
  ELSE FormatNat(n \div 10) \o DigitChars[(n % 10) + 1]

format_i64(n) == IF n < 0 THEN "-" \o FormatNat(0 - n) ELSE FormatNat(n)

\* the command focus_ws sends
focus_ws(n) == "workspace number " \o format_i64(n)

\* the command move_ws sends
move_ws(n) == "move workspace number " \o format_i64(n)

----------------------------------------------------------------------------
(* Inputs of the selector specifications. *)

WsNums == -1..MaxNum
Steps == {-5, -1, 1}

Workspace(n, o, v, f) == [num |-> n, output |-> o, visible |-> v, focused |-> f]

NoArgs == [action |-> "Next", move_ws |-> FALSE, no_focus_ws |-> FALSE,
           stdout_ws |-> FALSE]

\* Snapshots in which only the numbers vary (find_by reads nothing else).
NumOnlyWs == {Workspace(n, "A", TRUE, FALSE) : n \in WsNums}

InitFindBy ==
  /\ workspaces \in SeqsUpTo(NumOnlyWs, MaxWs)
  /\ current \in -1..(MaxNum + 1)
  /\ step \in Steps
  /\ origin = current
  /\ output = ValueToString("A")
  /\ pc = "call"
  /\ calls = 0
  /\ num = Ok(0)
  /\ args = NoArgs
  /\ reply = <<>>
  /\ outputs = <<>>
  /\ ipc = <<>>
  /\ stdout = <<>>

\* find_by(&workspaces, current_ws_num, step)
CallFindBy ==
  /\ pc = "call"
  /\ num' = find_by(workspaces, current, step)
  /\ pc' = "ret"
  /\ calls' = calls + 1
  /\ UNCHANGED <<args, workspaces, reply, outputs, current, output, step, ipc, stdout, origin>>

\* The opposite action invoked from the number just reached, same snapshot
\* (Action::Next then Action::Prev, main.rs 230-231).
Reinvoke ==
  /\ pc = "ret"
  /\ calls = 1
  /\ ~num.panic
  /\ step \in {-1, 1}
  /\ current' = num.val
  /\ step' = -step
  /\ pc' = "call"
  /\ UNCHANGED <<args, workspaces, reply, outputs, output, num, ipc, stdout, origin, calls>>

NextFindBy == CallFindBy \/ Reinvoke

SpecFindBy == InitFindBy /\ [][NextFindBy]_vars

Max2(a, b) == IF a >= b THEN a ELSE b
LastNum == SetMax(Range(Nums(workspaces)))

\* A first call on a snapshot holding the single workspace `current`.
SingleCall ==
  /\ pc = "ret" /\ calls = 1
  /\ Len(workspaces) = 1 /\ workspaces[1].num = current
  /\ current >= 1 /\ step \in {-1, 1}

\* C3 (as claimed): on a snapshot holding the single workspace n >= 1, Next
\* returns n + 1 and Prev returns n.
C3_SingleNextPrevNoop ==
  SingleCall => num = Ok(IF step = 1 THEN current + 1 ELSE current)

\* C3 (amended): on a snapshot holding the single workspace n >= 1, Next
\* returns n + 1 and Prev returns max(1, n - 1), which is n only for n = 1.
C3_SingleNextPrev ==
  SingleCall => num = Ok(IF step = 1 THEN current + 1 ELSE Max2(1, current - 1))

\* C3 witness: Prev on the single workspace 3 has returned 2.
C3_Witness ==
  SingleCall /\ current = 3 /\ step = -1 /\ num = Ok(2)

\* Next then Prev have both returned, starting from a number of the snapshot
\* that is not its maximum.
RoundTripDone ==
  /\ pc = "ret" /\ calls = 2 /\ step = -1
  /\ origin \in Range(Nums(workspaces))
  /\ origin # LastNum

\* C4 (as claimed): for every start c of the snapshot other than its maximum,
\* find_by(find_by(c, +1), -1) = c.
C4_RoundTripAnyStart == RoundTripDone => num = Ok(origin)

\* C4 (amended): the round trip returns to c for every start c >= 1 of the
\* snapshot other than its maximum.
C4_RoundTrip == (RoundTripDone /\ origin >= 1) => num = Ok(origin)

\* C4 witness: a round trip from 2 below the maximum 3 is back at 2.
C4_Witness == RoundTripDone /\ origin = 2 /\ current = 3 /\ num = Ok(2)

\* C5 (as claimed): on a non-empty snapshot find_by never returns a number
\* below 1, and for current = last, step = -5 it returns max(1, last - 5).
C5_NeverBelowOne ==
  (pc = "ret" /\ workspaces # <<>>) =>
    /\ ~num.panic
    /\ num.val >= 1
    /\ (calls = 1 /\ current = LastNum /\ step = -5)
         => num.val = Max2(1, LastNum - 5)

----------------------------------------------------------------------------
(* The per-output and cross-output selectors, called as main calls them: on  *)
(* the number and the output of the focused workspace.                       *)

OutputNames == {"A", "B", "C"}

UniqueNums(wss) == \A i, j \in 1..Len(wss) : wss[i].num = wss[j].num => i = j

\* At most one workspace is shown on an output at a time.
OneVisiblePerOutput(wss) ==
  \A i, j \in 1..Len(wss) :
    (wss[i].visible /\ wss[j].visible /\ wss[i].output = wss[j].output) => i = j

\* main.rs 217-223: the first workspace with focused == true
FocusedIndex(wss) ==
  IF \E i \in 1..Len(wss) : wss[i].focused = TRUE
  THEN SetMin({i \in 1..Len(wss) : wss[i].focused = TRUE})
  ELSE 0

\* A snapshot drawn from `raw` with its i-th workspace focused, and the call
\* inputs main derives from it.
FocusedCall(raw, i) ==
  /\ workspaces = [raw EXCEPT ![i].focused = TRUE]
  /\ current = raw[i].num
  /\ output = ValueToString(raw[i].output)
  /\ origin = current
  /\ pc = "call"
  /\ calls = 0
  /\ num = Ok(0)
  /\ args = NoArgs
  /\ reply = <<>>
  /\ outputs = <<>>
  /\ ipc = <<>>
  /\ stdout = <<>>

OnOutputWs == {Workspace(n, o, TRUE, FALSE) : n \in WsNums, o \in {"A", "B"}}

InitOnOutput ==
  /\ step \in {-1, 1}
  /\ \E raw \in SeqsUpTo(OnOutputWs, MaxWs) :
       /\ UniqueNums(raw)
       /\ \E i \in 1..Len(raw) : FocusedCall(raw, i)

\* find_on_output(&workspaces, current_ws_num, step, current_output)
CallFindOnOutput ==
  /\ pc = "call"
  /\ num' = Ok(find_on_output(workspaces, current, step, output))
  /\ pc' = "ret"
  /\ calls' = calls + 1
  /\ UNCHANGED <<args, workspaces, reply, outputs, current, output, step, ipc, stdout, origin>>

NextOnOutput == CallFindOnOutput

SpecOnOutput == InitOnOutput /\ [][NextOnOutput]_vars

\* Numbers of the workspaces on an output other than `output`.
OtherNums == {workspaces[i].num : i \in {j \in 1..Len(workspaces) :
                                          OnOtherOutput(workspaces[j], output)}}
OtherBelow == {n \in OtherNums : n < current}
OtherAbove == {n \in OtherNums : n > current}

\* The result lies in the gap around current left by the other outputs.
InGap ==
  /\ num.val \notin OtherNums
  /\ num.val > (IF OtherBelow = {} THEN 0 ELSE SetMax(OtherBelow))
  /\ OtherAbove # {} => num.val < SetMin(OtherAbove)

\* A first call from the focused workspace of a snapshot with unique numbers.
OnOutputCall == pc = "ret" /\ calls = 1 /\ UniqueNums(workspaces)

\* C6 (as claimed): with unique numbers and current on the given output, the
\* result of find_on_output (step +1 or -1) is no number of another output and
\* lies strictly between the nearest other-output numbers around current.
C6_NoCollisionAnyCurrent == OnOutputCall => InGap

\* The gap is kept whenever current >= 1.
C6_NoCollisionFromOne == (OnOutputCall /\ current >= 1) => InGap

JumpWs == {Workspace(n, o, v, FALSE) : n \in 1..MaxNum, o \in OutputNames,
                                       v \in BOOLEAN}

InitOutput ==
  /\ step \in {-1, 1}
  /\ \E raw \in SeqsUpTo(JumpWs, MaxWs) :
       /\ UniqueNums(raw)
       /\ OneVisiblePerOutput(raw)
       /\ \E i \in 1..Len(raw) : raw[i].visible /\ FocusedCall(raw, i)

\* find_output(&workspaces, current_ws_num, step, current_output)
CallFindOutput ==
  /\ pc = "call"
  /\ num' = Ok(find_output(workspaces, current, step, output))
  /\ pc' = "ret"
  /\ calls' = calls + 1
  /\ UNCHANGED <<args, workspaces, reply, outputs, current, output, step, ipc, stdout, origin>>

NextOutput == CallFindOutput

SpecOutput == InitOutput /\ [][NextOutput]_vars

\* Numbers of the visible workspaces on an output other than `output`.
Candidates == {workspaces[i].num : i \in {j \in 1..Len(workspaces) :
                  /\ OnOtherOutput(workspaces[j], output)
                  /\ workspaces[j].visible = TRUE}}
CandBelow == {n \in Candidates : n < current}
CandAbove == {n \in Candidates : n > current}

\* C1 (as claimed): with unique numbers, in any list order, find_output
\* returns the smallest candidate above current for step > 0, the largest
\* candidate below current for step < 0, and current when there is none.
C1_NearestCandidate ==
  (pc = "ret" /\ UniqueNums(workspaces)) =>
    num = Ok(IF step > 0
             THEN (IF CandAbove = {} THEN current ELSE SetMin(CandAbove))
             ELSE (IF CandBelow = {} THEN current ELSE SetMax(CandBelow)))

----------------------------------------------------------------------------
(* Output ordering: get_outputs sorts the listed outputs. *)

OrderOutputs == {Output(x, y, <<"1">>, f) : x \in 0..MaxCoord, y \in 0..MaxCoord,
                                            f \in BOOLEAN}

InitOrder ==
  /\ reply \in SeqsUpTo(OrderOutputs, MaxOutputs)
  /\ outputs = <<>>
  /\ pc = "call"
  /\ workspaces = <<>>
  /\ current = 0
  /\ output = ValueToString("A")
  /\ step = 0
  /\ origin = 0
  /\ calls = 0
  /\ num = Ok(0)
  /\ args = NoArgs
  /\ ipc = <<>>
  /\ stdout = <<>>

\* get_outputs(&mut client)
GetOutputs ==
  /\ pc = "call"
  /\ outputs' = get_outputs(reply)
  /\ pc' = "ret"
  /\ UNCHANGED <<args, workspaces, reply, current, output, step, num, ipc, stdout,
                 origin, calls>>

NextOrder == GetOutputs

SpecOrder == InitOrder /\ [][NextOrder]_vars

\* Ascending x, then ascending y.
LexLess(a, b) ==
  a.rect.x < b.rect.x \/ (a.rect.x = b.rect.x /\ a.rect.y < b.rect.y)
SamePlace(a, b) == a.rect.x = b.rect.x /\ a.rect.y = b.rect.y

Occurrences(v, o) == Cardinality({i \in 1..Len(v) : v[i] = o})

\* C9: cmp is a total order on outputs by ascending x, then ascending y
\* (antisymmetric, transitive, total, Equal exactly when x and y both match,
\* as eq says); get_outputs returns the listed outputs non-decreasing in
\* (x, y), and sorting its result again changes nothing.
C9_OutputOrder ==
  /\ \A a, b \in Range(reply) :
       /\ cmp(a, b) \in {"Less", "Equal", "Greater"}
       /\ cmp(a, b) = "Less" <=> LexLess(a, b)
       /\ cmp(a, b) = "Greater" <=> cmp(b, a) = "Less"
       /\ cmp(a, b) = "Equal" <=> SamePlace(a, b)
       /\ cmp(a, b) = "Equal" <=> eq(a, b)
  /\ \A a, b, c \in Range(reply) :
       (cmp(a, b) # "Greater" /\ cmp(b, c) # "Greater") => cmp(a, c) # "Greater"
  /\ pc = "ret" =>
       /\ Len(outputs) = Len(reply)
       /\ \A o \in Range(reply) : Occurrences(outputs, o) = Occurrences(reply, o)
       /\ \A i, j \in 1..Len(outputs) : i < j => ~LexLess(outputs[j], outputs[i])
       /\ sort(outputs) = outputs

\* C9 witness: three outputs listed in descending order, two of them sharing
\* x, have been sorted into ascending order.
C9_Witness ==
  /\ pc = "ret"
  /\ Len(reply) = 3
  /\ LexLess(reply[3], reply[2]) /\ LexLess(reply[2], reply[1])
  /\ reply[3].rect.x = reply[2].rect.x
  /\ outputs = <<reply[3], reply[2], reply[1]>>

----------------------------------------------------------------------------
(* Layout-aware navigation, called as main calls it: on the focused         *)
(* workspace and on the outputs as get_outputs returns them.                 *)

LayoutWs == {Workspace(n, o, TRUE, FALSE) : n \in 1..MaxNum, o \in {"A", "B"}}

WorkspaceNames == {<<"2">>, <<"1", "0">>, <<"w">>}

\* Outputs in a row from left to right, already in get_outputs' order, at
\* most one of them focused.
OutputRows ==
  {[i \in 1..Len(r) |-> Output(i - 1, 0, r[i].current_workspace, r[i].focused)] :
     r \in {q \in SeqsUpTo([current_workspace : WorkspaceNames, focused : BOOLEAN],
                           MaxOutputs) :
              \A i, j \in 1..Len(q) : (q[i].focused /\ q[j].focused) => i = j}}

InitLayout ==
  /\ step \in {-1, 1}
  /\ \E raw \in SeqsUpTo(LayoutWs, MaxWs) :
       /\ UniqueNums(raw)
       /\ \E i \in 1..Len(raw) :
            /\ workspaces = [raw EXCEPT ![i].focused = TRUE]
            /\ current = raw[i].num
            /\ output = ValueToString(raw[i].output)
  /\ outputs \in OutputRows
  /\ reply = outputs
  /\ origin = current
  /\ pc = "call"
  /\ calls = 0
  /\ num = Ok(0)
  /\ args = NoArgs
  /\ ipc = <<>>
  /\ stdout = <<>>

\* layout_aware(&workspaces, current_ws_num, current_output, step, outputs),
\* in a build with or without overflow checks
CallLayoutAware ==
  /\ pc = "call"
  /\ \E overflow_checks \in BOOLEAN :
       num' = layout_aware(workspaces, current, output, step, outputs, overflow_checks)
  /\ pc' = "ret"
  /\ calls' = calls + 1
  /\ UNCHANGED <<args, workspaces, reply, outputs, current, output, step, ipc, stdout,
                 origin>>

NextLayout == CallLayoutAware

SpecLayout == InitLayout /\ [][NextLayout]_vars

\* Numbers of the workspaces on the current output.
OnCurrent == {workspaces[i].num : i \in {j \in 1..Len(workspaces) :
                                          ~OnOtherOutput(workspaces[j], output)}}

\* current is the first (step < 0) or last (step > 0) number of its output.
AtBoundary ==
  \/ step < 0 /\ current = SetMin(OnCurrent)
  \/ step > 0 /\ current = SetMax(OnCurrent)

Clamp(i, lo, hi) == IF i < lo THEN lo ELSE IF i > hi THEN hi ELSE i

\* C2 (as claimed): at a boundary of the current output's list, layout_aware
\* returns the current_workspace of the output at index
\* clamp(p + step, 0, number_of_outputs - 1), p the index of the focused
\* output; on the first output PrevLayoutAware returns that output's own
\* current workspace and does not abort.
C2_BoundarySaturates ==
  (pc = "ret" /\ AtBoundary /\ FocusedOutput(outputs) >= 0) =>
    LET p == FocusedOutput(outputs)
        target == outputs[Clamp(p + step, 0, Len(outputs) - 1) + 1]
    IN ~parse_i64(target.current_workspace).panic =>
         num = parse_i64(target.current_workspace)

\* C10: away from the boundary of the current output's ascending list in the
\* direction of travel, layout_aware (step +1 or -1) returns the adjacent
\* number of that list, a workspace of the current output, whatever the
\* outputs are.
C10_InnerStep ==
  (pc = "ret" /\ ~AtBoundary) =>
    /\ ~num.panic
    /\ num.val \in OnCurrent
    /\ step > 0 => num.val = SetMin({n \in OnCurrent : n > current})
    /\ step < 0 => num.val = SetMax({n \in OnCurrent : n < current})

\* C10 witness: NextLayoutAware from 2 has returned 3 on an output holding
\* 1, 2, 3, with no output listed at all.
C10_Witness ==
  /\ pc = "ret" /\ step = 1 /\ current = 2 /\ OnCurrent = {1, 2, 3}
  /\ outputs = <<>> /\ num = Ok(3)

----------------------------------------------------------------------------
(* The navigation driver: one invocation of main. *)

Actions == {"Next", "Prev", "NextOutput", "PrevOutput", "NextOnOutput",
            "PrevOnOutput", "NextLayoutAware", "PrevLayoutAware"}
LayoutActions == {"NextLayoutAware", "PrevLayoutAware"}

DrvWs == {Workspace(n, o, TRUE, f) : n \in 1..MaxDrvWs, o \in {"A", "B"},
                                     f \in BOOLEAN}
WsReplies == {r \in SeqsUpTo(DrvWs, MaxDrvWs) : UniqueNums(r)}

DrvOutputs == {Output(x, 0, cw, f) : x \in 0..1, cw \in {<<"2">>, <<"w">>},
                                     f \in BOOLEAN}
OutputReplies == SeqsUpTo(DrvOutputs, MaxDrvOutputs)

Init ==
  /\ args \in [action : Actions, move_ws : BOOLEAN, no_focus_ws : BOOLEAN,
                stdout_ws : BOOLEAN]
  /\ pc = "start"
  /\ workspaces = <<>>
  /\ reply = <<>>
  /\ outputs = <<>>
  /\ current = 0
  /\ output = ""
  /\ step = 0
  /\ num = Ok(0)
  /\ ipc = <<>>
  /\ stdout = <<>>
  /\ origin = 0
  /\ calls = 0

\* Client::connect_to_path(..).unwrap()
Connect ==
  /\ pc = "start"
  /\ \E ok \in BOOLEAN : pc' = IF ok THEN "connected" ELSE "aborted"
  /\ UNCHANGED <<args, workspaces, reply, outputs, current, output, step, num, ipc,
                 stdout, origin, calls>>

\* get_workspaces(&mut client): the IPC call or the parse may fail
GetWorkspaces ==
  /\ pc = "connected"
  /\ \/ /\ pc' = "aborted"
        /\ UNCHANGED workspaces
     \/ /\ workspaces' \in WsReplies
        /\ pc' = "fetched"
  /\ UNCHANGED <<args, reply, outputs, current, output, step, num, ipc, stdout,
                 origin, calls>>

\* FindFocused going on with the first workspace when none is focused.
FindFocusedOrFirst ==
  /\ pc = "fetched"
  /\ IF workspaces = <<>>
     THEN pc' = "aborted" /\ UNCHANGED <<current, output, origin>>
     ELSE LET i == IF FocusedIndex(workspaces) = 0 THEN 1
                   ELSE FocusedIndex(workspaces)
          IN /\ current' = workspaces[i].num
             /\ output' = ValueToString(workspaces[i].output)
             /\ origin' = workspaces[i].num
             /\ pc' = "focused"
  /\ UNCHANGED <<args, workspaces, reply, outputs, step, num, ipc, stdout, calls>>

\* current_ws = workspaces.filter(focused == true).nth(0).unwrap(), then its
\* num and output
FindFocused ==
  /\ pc = "fetched"
  /\ IF FocusedIndex(workspaces) = 0
     THEN pc' = "aborted" /\ UNCHANGED <<current, output, origin>>
     ELSE LET i == FocusedIndex(workspaces)
          IN /\ current' = workspaces[i].num
             /\ output' = ValueToString(workspaces[i].output)
             /\ origin' = workspaces[i].num
             /\ pc' = "focused"
  /\ UNCHANGED <<args, workspaces, reply, outputs, step, num, ipc, stdout, calls>>

\* get_outputs(&mut client), evaluated as the last argument of layout_aware
FetchOutputs ==
  /\ pc = "focused"
  /\ args.action \in LayoutActions
  /\ \/ /\ pc' = "aborted"
        /\ UNCHANGED <<reply, outputs>>
     \/ /\ reply' \in OutputReplies
        /\ outputs' = get_outputs(reply')
        /\ pc' = "outputs"
  /\ UNCHANGED <<args, workspaces, current, output, step, num, ipc, stdout, origin,
                 calls>>

StepOf(action) ==
  IF action \in {"Next", "NextOutput", "NextOnOutput", "NextLayoutAware"}
  THEN 1 ELSE -1

\* match args.action { .. }
Select ==
  /\ \/ pc = "focused" /\ args.action \notin LayoutActions
     \/ pc = "outputs"
  /\ step' = StepOf(args.action)
  /\ \/ /\ args.action \in {"Next", "Prev"}
        /\ num' = find_by(workspaces, current, step')
     \/ /\ args.action \in {"NextOnOutput", "PrevOnOutput"}
        /\ num' = Ok(find_on_output(workspaces, current, step', output))
     \/ /\ args.action \in {"NextOutput", "PrevOutput"}
        /\ num' = Ok(find_output(workspaces, current, step', output))
     \/ /\ args.action \in LayoutActions
        /\ \E overflow_checks \in BOOLEAN :
             num' = layout_aware(workspaces, current, output, step', outputs,
                                 overflow_checks)
  /\ pc' = IF num'.panic THEN "aborted" ELSE "selected"
  /\ calls' = calls + 1
  /\ UNCHANGED <<args, workspaces, reply, outputs, current, output, ipc, stdout,
                 origin>>

\* MoveWs going on after a failed command.
MoveWsIgnoringFailure ==
  /\ pc = "selected"
  /\ IF args.move_ws
     THEN \E ok \in BOOLEAN :
            /\ ipc' = Append(ipc, [text |-> move_ws(num.val), ok |-> ok])
            /\ pc' = "moved"
     ELSE pc' = "moved" /\ UNCHANGED ipc
  /\ UNCHANGED <<args, workspaces, reply, outputs, current, output, step, num, stdout,
                 origin, calls>>

\* if args.move_ws { move_ws(&mut client, num).unwrap(); }
MoveWs ==
  /\ pc = "selected"
  /\ IF args.move_ws
     THEN \E ok \in BOOLEAN :
            /\ ipc' = Append(ipc, [text |-> move_ws(num.val), ok |-> ok])
            /\ pc' = IF ok THEN "moved" ELSE "aborted"
     ELSE pc' = "moved" /\ UNCHANGED ipc
  /\ UNCHANGED <<args, workspaces, reply, outputs, current, output, step, num, stdout,
                 origin, calls>>

\* if !args.no_focus_ws { focus_ws(&mut client, num).unwrap(); }
FocusWs ==
  /\ pc = "moved"
  /\ IF ~args.no_focus_ws
     THEN \E ok \in BOOLEAN :
            /\ ipc' = Append(ipc, [text |-> focus_ws(num.val), ok |-> ok])
            /\ pc' = IF ok THEN "shown" ELSE "aborted"
     ELSE pc' = "shown" /\ UNCHANGED ipc
  /\ UNCHANGED <<args, workspaces, reply, outputs, current, output, step, num, stdout,
                 origin, calls>>

\* if args.stdout_ws { print!("{}", num); }
PrintNum ==
  /\ pc = "shown"
  /\ stdout' = IF args.stdout_ws THEN Append(stdout, format_i64(num.val)) ELSE stdout
  /\ pc' = "done"
  /\ UNCHANGED <<args, workspaces, reply, outputs, current, output, step, num, ipc,
                 origin, calls>>

Next ==
  \/ Connect
  \/ GetWorkspaces
  \/ FindFocused
  \/ FetchOutputs
  \/ Select
  \/ MoveWs
  \/ FocusWs
  \/ PrintNum

Spec == Init /\ [][Next]_vars

Texts == [i \in 1..Len(ipc) |-> ipc[i].text]

\* C7: at most two commands are issued, both carrying the computed number:
\* the move command (if requested) before the focus command (unless
\* suppressed), the number printed only after them; a failed command ends
\* the invocation, so nothing is sent or printed after it.
C7_CommandOrder ==
  /\ Len(ipc) <= 2
  /\ Texts \in {<<>>, <<move_ws(num.val)>>, <<focus_ws(num.val)>>,
                 <<move_ws(num.val), focus_ws(num.val)>>}
  /\ ipc # <<>> => (~num.panic /\ calls = 1)
  /\ (\E i \in 1..Len(ipc) : ipc[i].text = move_ws(num.val)) => args.move_ws
  /\ (\E i \in 1..Len(ipc) : ipc[i].text = focus_ws(num.val)) => ~args.no_focus_ws
  /\ \A i \in 1..Len(ipc) :
       ~ipc[i].ok => (i = Len(ipc) /\ pc = "aborted" /\ stdout = <<>>)
  /\ pc \in {"shown", "done"} =>
       Texts = (IF args.move_ws THEN <<move_ws(num.val)>> ELSE <<>>)
               \o (IF ~args.no_focus_ws THEN <<focus_ws(num.val)>> ELSE <<>>)
  /\ stdout # <<>> =>
       (pc = "done" /\ args.stdout_ws /\ stdout = <<format_i64(num.val)>>)
  /\ pc = "done" => (stdout # <<>> <=> args.stdout_ws)

\* C7 witness: a move and a focus command for the same number were sent in
\* that order and the number was printed.
C7_Witness ==
  /\ pc = "done"
  /\ Texts = <<"move workspace number 2", "workspace number 2">>
  /\ stdout = <<"2">>

\* C8: when the fetched snapshot holds no focused workspace (an empty list
\* included), the invocation aborts before any selector runs: no move
\* command, no focus command and no print is ever issued.
C8_NoFocusedIsFatal ==
  (pc \notin {"start", "connected"} /\ FocusedIndex(workspaces) = 0) =>
    /\ pc \in {"fetched", "aborted"}
    /\ calls = 0
    /\ ipc = <<>>
    /\ stdout = <<>>

\* C8 witness: a snapshot of two workspaces, neither focused, has aborted the
\* invocation.
C8_Witness ==
  /\ pc = "aborted"
  /\ Len(workspaces) = 2
  /\ FocusedIndex(workspaces) = 0

====
